---------------------------- MODULE Spec2Model ----------------------------
(***************************************************************************)
(* HabitTool (src/main.rs): a habit file holds a collection of             *)
(* HabitExecution records.  Each record keeps a rolling window of at most  *)
(* MAX_EXECUTIONS day values and a list of archived windows, bit-packed    *)
(* and base64url encoded.                                                  *)
(***************************************************************************)
EXTENDS Integers, Sequences, FiniteSets, TLC

(***************************************************************************)
(* Program constants                                                       *)
(***************************************************************************)
MAX_EXECUTIONS == 49

\* (0..49) in map_executions_to_display_chars: the number of display cells
DISPLAY_CELLS == 49

\* u8 arithmetic of archive_execution
ByteMod == 256

\* the day values a caller passes (i8 restricted to the three the tool uses)
DayValues == {-1, 0, 1}

(***************************************************************************)
(* Bounds of the model                                                     *)
(***************************************************************************)
\* operations taken after Init in the collection-level specification
MaxOps == 1
\* names in one user-update batch
MaxBatch == 2
\* records in a collection
MaxHabits == 3
\* scripted updates before the free operations, collection-level
MaxScript == 50
\* scripted updates before the free updates, record-level
MaxHabitScript == 99
\* updates taken after Init in the record-level specification
MaxHabitOps == 3
\* scripted days before the free updates of the day specifications
MaxDayScript == 99
\* free updates in the specification of arbitrary days
MaxDayOps == 3
\* free days, and manual updates in one of them, under the daily protocol
MaxFreeDays == 2
MaxDayManual == 2
\* values 1 in a window handed to archive_execution (one fewer: values other
\* than 1 in a window of ones)
MaxOnes == 2

\* names that add_new_habit may register, and names a caller may ask for
AddNames == {"Test", "Meditation"}
LookupNames == {"Test", "Meditation", "Coding"}

(***************************************************************************)
(* HabitExecution                                                          *)
(***************************************************************************)
HabitExecution_new(name) ==
    [name |-> name,
     executions |-> <<>>,
     manual_update |-> FALSE,
     archived_executions |-> <<>>]

\* mutant: a name the collection already has is not added again
AddNewHabitUnique(name, hs) ==
    IF \E i \in 1..Len(hs) : hs[i].name = name
    THEN hs
    ELSE Append(hs, HabitExecution_new(name))

add_new_habit(name, hs) == Append(hs, HabitExecution_new(name))

(***************************************************************************)
(* archive_execution: pack the window into bytes, 8 values per byte, most  *)
(* significant bit first; the byte in progress after the loop is shifted   *)
(* left by 7 and pushed; the bytes are base64url encoded without padding.  *)
(***************************************************************************)
Shl(b, k) == (b * (2 ^ k)) % ByteMod

\* mutant: every value other than 0 sets the bit
RECURSIVE PackValuesNonZero(_, _, _, _)
PackValuesNonZero(old, from, to, byte_rep) ==
    IF from > to THEN byte_rep
    ELSE LET shifted == Shl(byte_rep, 1)
         IN PackValuesNonZero(old, from + 1, to,
                              IF old[from + 1] # 0
                              THEN shifted + (1 - (shifted % 2))
                              ELSE shifted)

\* lines 124-127 for the values old[from..to] (0-based): the byte in progress
\* is shifted left by one for each value and its low bit set for a 1
RECURSIVE PackValues(_, _, _, _)
PackValues(old, from, to, byte_rep) ==
    IF from > to THEN byte_rep
    ELSE LET shifted == Shl(byte_rep, 1)
         IN PackValues(old, from + 1, to,
                       IF old[from + 1] = 1
                       THEN shifted + (1 - (shifted % 2))
                       ELSE shifted)

\* the loop of lines 118-128 pushes the byte in progress and restarts it at
\* every index i # 0 with i % 8 = 0: Flushes(n) pushes for a window of n values
Flushes(n) == IF n = 0 THEN 0 ELSE (n - 1) \div 8

LastShift == 7

\* mutant: the byte in progress when the loop ends is not pushed
ArchiveArrayNoLastByte(old_executions) ==
    [j \in 1..Flushes(Len(old_executions)) |->
        PackValues(old_executions, 8 * (j - 1), 8 * j - 1, 0)]

\* the bytes pushed inside the loop, then the byte in progress after the loop
\* shifted left by LastShift (lines 131-132)
ArchiveArray(old_executions) ==
    LET n == Len(old_executions)
        k == Flushes(n)
    IN [j \in 1..k |-> PackValues(old_executions, 8 * (j - 1), 8 * j - 1, 0)]
       \o << Shl(PackValues(old_executions, 8 * k, n - 1, 0), LastShift) >>

Base64UrlAlphabet ==
    << "A","B","C","D","E","F","G","H","I","J","K","L","M","N","O","P",
       "Q","R","S","T","U","V","W","X","Y","Z","a","b","c","d","e","f",
       "g","h","i","j","k","l","m","n","o","p","q","r","s","t","u","v",
       "w","x","y","z","0","1","2","3","4","5","6","7","8","9","-","_" >>

\* the 6-bit groups of the bytes: three bytes give four groups, a final group
\* of one byte gives two and of two bytes gives three (no padding)
RECURSIVE Base64Sextets(_)
Base64Sextets(bytes) ==
    IF Len(bytes) = 0 THEN <<>>
    ELSE IF Len(bytes) = 1 THEN
        << bytes[1] \div 4, (bytes[1] % 4) * 16 >>
    ELSE IF Len(bytes) = 2 THEN
        << bytes[1] \div 4,
           (bytes[1] % 4) * 16 + bytes[2] \div 16,
           (bytes[2] % 16) * 4 >>
    ELSE
        << bytes[1] \div 4,
           (bytes[1] % 4) * 16 + bytes[2] \div 16,
           (bytes[2] % 16) * 4 + bytes[3] \div 64,
           bytes[3] % 64 >> \o Base64Sextets(SubSeq(bytes, 4, Len(bytes)))

RECURSIVE Base64Chars(_)
Base64Chars(sextets) ==
    IF sextets = <<>> THEN ""
    ELSE Base64UrlAlphabet[Head(sextets) + 1] \o Base64Chars(Tail(sextets))

base64_url_encode(bytes) == Base64Chars(Base64Sextets(bytes))

\* mutant: the token replaces the stored tokens instead of following them
ArchiveExecutionOverwrite(habit) ==
    [habit EXCEPT
        !.executions = <<>>,
        !.archived_executions =
            << base64_url_encode(ArchiveArray(habit.executions)) >>]

\* mutant: the newest value of the archived window stays in the window
ArchiveExecutionKeepsLast(habit) ==
    [habit EXCEPT
        !.executions = <<habit.executions[Len(habit.executions)]>>,
        !.archived_executions =
            Append(@, base64_url_encode(ArchiveArray(habit.executions)))]

archive_execution(habit) ==
    [habit EXCEPT
        !.executions = <<>>,
        !.archived_executions =
            Append(@, base64_url_encode(ArchiveArray(habit.executions)))]

(***************************************************************************)
(* update_habit                                                            *)
(***************************************************************************)
\* mutant: manual_update, once true, stays true
UpdateHabitKeepsFlag(habit, value, manual_update) ==
    LET h1 == IF Len(habit.executions) >= MAX_EXECUTIONS
              THEN archive_execution(habit) ELSE habit
        h2 == IF ~h1.manual_update
              THEN [h1 EXCEPT !.executions = Append(@, value)]
              ELSE h1
    IN [h2 EXCEPT !.manual_update = (@ \/ manual_update)]

\* mutant: a value that arrives while manual_update is true replaces the
\* newest value of the window
UpdateHabitLastWins(habit, value, manual_update) ==
    LET h1 == IF Len(habit.executions) >= MAX_EXECUTIONS
              THEN archive_execution(habit) ELSE habit
        h2 == IF ~h1.manual_update
              THEN [h1 EXCEPT !.executions = Append(@, value)]
              ELSE IF h1.executions = <<>> THEN h1
              ELSE [h1 EXCEPT !.executions[Len(h1.executions)] = value]
    IN [h2 EXCEPT !.manual_update = manual_update]

\* mutant: the window is archived one update late
WindowFullStrict(habit) == Len(habit.executions) > MAX_EXECUTIONS

\* mutant: the window counts as full one value early
WindowFullEarly(habit) == Len(habit.executions) >= MAX_EXECUTIONS - 1

WindowFull(habit) == Len(habit.executions) >= MAX_EXECUTIONS

\* mutant: the value is pushed whatever manual_update says
AcceptsValueAlways(habit) == TRUE

\* mutant: the test of manual_update is inverted
AcceptsValueInverted(habit) == habit.manual_update

AcceptsValue(habit) == ~habit.manual_update

update_habit(habit, value, manual_update) ==
    LET h1 == IF WindowFull(habit) THEN archive_execution(habit) ELSE habit
        h2 == IF AcceptsValue(h1)
              THEN [h1 EXCEPT !.executions = Append(@, value)]
              ELSE h1
    IN [h2 EXCEPT !.manual_update = manual_update]

\* the windows update_habit hands to archive_execution, with the bytes built
ArchiveCalls(habit) ==
    IF WindowFull(habit)
    THEN << [old_executions |-> habit.executions,
             archive_array |-> ArchiveArray(habit.executions)] >>
    ELSE <<>>

(***************************************************************************)
(* update_execution                                                        *)
(***************************************************************************)
Ok(v) == [tag |-> "Ok", val |-> v]
Err(v) == [tag |-> "Err", val |-> v]

NotFoundMessage(name) == "Habit  not found"

\* mutant: a name that matches no record falls back to the first record
FirstMatchOrFirst(hs, name) ==
    IF \E i \in 1..Len(hs) : hs[i].name = name
    THEN CHOOSE i \in 1..Len(hs) :
            /\ hs[i].name = name
            /\ \A j \in 1..(i - 1) : hs[j].name # name
    ELSE IF Len(hs) > 0 THEN 1 ELSE 0

\* mutant: the last record with the name is taken, not the first
FirstMatchLast(hs, name) ==
    IF \E i \in 1..Len(hs) : hs[i].name = name
    THEN CHOOSE i \in 1..Len(hs) :
            /\ hs[i].name = name
            /\ \A j \in (i + 1)..Len(hs) : hs[j].name # name
    ELSE 0

\* index of the first record the loop of line 102 matches, 0 when none
FirstMatch(hs, name) ==
    IF \E i \in 1..Len(hs) : hs[i].name = name
    THEN CHOOSE i \in 1..Len(hs) :
            /\ hs[i].name = name
            /\ \A j \in 1..(i - 1) : hs[j].name # name
    ELSE 0

update_execution(hs, name, value, manual_update) ==
    LET i == FirstMatch(hs, name)
    IN IF i # 0
       THEN [habits |-> [hs EXCEPT ![i] = update_habit(hs[i], value, manual_update)],
             result |-> Ok(name),
             archived |-> ArchiveCalls(hs[i])]
       ELSE [habits |-> hs,
             result |-> Err(NotFoundMessage(name)),
             archived |-> <<>>]

(***************************************************************************)
(* perform_user_updates and perform_mechanical_update: one update_execution*)
(* per name, in order, every Result dropped, the collection written back.  *)
(***************************************************************************)
\* mutant: the loop stops at the first name that is not found
RECURSIVE UpdateEachFailFast(_, _, _, _, _, _)
UpdateEachFailFast(hs, names, value, manual_update, results, archived) ==
    IF names = <<>>
    THEN [habits |-> hs, results |-> results, archived |-> archived]
    ELSE LET r == update_execution(hs, Head(names), value, manual_update)
         IN IF r.result.tag = "Err"
            THEN [habits |-> hs, results |-> Append(results, r.result),
                  archived |-> archived]
            ELSE UpdateEachFailFast(r.habits, Tail(names), value, manual_update,
                                    Append(results, r.result),
                                    archived \o r.archived)

RECURSIVE UpdateEach(_, _, _, _, _, _)
UpdateEach(hs, names, value, manual_update, results, archived) ==
    IF names = <<>>
    THEN [habits |-> hs, results |-> results, archived |-> archived]
    ELSE LET r == update_execution(hs, Head(names), value, manual_update)
         IN UpdateEach(r.habits, Tail(names), value, manual_update,
                       Append(results, r.result), archived \o r.archived)

UserValue == 1
MechanicalValue == -1

\* mutant: the user's update is passed on with is_manual = false
PerformUserUpdatesUnmarked(hs, habit_names) ==
    UpdateEach(hs, habit_names, UserValue, FALSE, <<>>, <<>>)

perform_user_updates(hs, habit_names) ==
    UpdateEach(hs, habit_names, UserValue, TRUE, <<>>, <<>>)

\* mutant: only the name of the first record is collected
HabitNamesFirstOnly(hs) == IF hs = <<>> THEN <<>> ELSE <<hs[1].name>>

HabitNamesOf(hs) == [i \in 1..Len(hs) |-> hs[i].name]

perform_mechanical_update(hs) ==
    UpdateEach(hs, HabitNamesOf(hs), MechanicalValue, FALSE, <<>>, <<>>)

(***************************************************************************)
(* map_executions_to_display_chars                                         *)
(***************************************************************************)
\* the closure of lines 273-291 over the cells x = 0..48, with the captured
\* flag diplay_today and the cells produced so far
RECURSIVE DisplayLoop(_, _, _, _)
DisplayLoop(habit, x, diplay_today, out) ==
    IF x >= DISPLAY_CELLS THEN out
    ELSE IF x >= Len(habit.executions)
         THEN IF diplay_today = TRUE /\ habit.manual_update = FALSE
              THEN DisplayLoop(habit, x + 1, FALSE, Append(out, "T"))
              ELSE DisplayLoop(habit, x + 1, diplay_today, Append(out, "."))
         ELSE IF habit.executions[x + 1] = 1
              THEN DisplayLoop(habit, x + 1, diplay_today, Append(out, "X"))
              ELSE DisplayLoop(habit, x + 1, diplay_today, Append(out, "O"))

\* mutant: diplay_today starts false
MapExecutionsNoToday(habit) == DisplayLoop(habit, 0, FALSE, <<>>)

map_executions_to_display_chars(habit) == DisplayLoop(habit, 0, TRUE, <<>>)

(***************************************************************************)
(* The script of mechanical updates that fills a record before the free    *)
(* operations start: its values repeat the window of the test              *)
(* archive_habit_execution.                                                *)
(***************************************************************************)
TestWindow ==
    <<1, 1, -1, 0, 0, 0, 0, 1, 1>> \o [i \in 1..38 |-> 0] \o <<1, 1>>

ScriptValue(i) == TestWindow[((i - 1) % Len(TestWindow)) + 1]

\* entries of a record's history: the window plus the archived windows
HistoryLen(habit) ==
    MAX_EXECUTIONS * Len(habit.archived_executions) + Len(habit.executions)

(***************************************************************************)
(* State                                                                   *)
(***************************************************************************)
VARIABLES
    habits,       \* the collection of records (the habit file's content)
    call,         \* the last operation and its arguments
    prev,         \* the collection before the last operation
    results,      \* the Results update_execution returned in the last operation
    archive_log,  \* archive_execution's calls in the last operation (in
                  \* the day specifications: since the day began)
    shown,        \* the display cells the last operation produced
    replayed,     \* scripted updates taken
    ops,          \* free operations taken (under the daily protocol: free days)
    day,          \* day boundaries passed
    today,        \* what happened since the last day boundary
    updates       \* the update_habit calls made on the record, each with
                  \* the manual_update it found (record-level specifications)

vars ==
    <<habits, call, prev, results, archive_log, shown, replayed, ops, day,
      today, updates>>

NoCall == [fn |-> "none", names |-> <<>>, value |-> 0, manual_update |-> FALSE]
Call(fn, names, value, manual_update) ==
    [fn |-> fn, names |-> names, value |-> value, manual_update |-> manual_update]

\* what a day has seen: the history length and manual_update when it began,
\* its manual updates and mechanical runs, the updates that directly followed
\* a mechanical run of the same day, and the kind of its last update
DayStart(habit) ==
    [start_len |-> HistoryLen(habit),
     start_manual |-> habit.manual_update,
     manual |-> 0,
     mechanical |-> 0,
     after_mechanical |-> 0,
     last |-> "none",
     log |-> <<>>]

NoDay == DayStart(HabitExecution_new("Test"))

DayAfter(kind) ==
    [today EXCEPT
        !.manual = IF kind = "manual" THEN @ + 1 ELSE @,
        !.mechanical = IF kind = "mechanical" THEN @ + 1 ELSE @,
        !.after_mechanical = IF today.last = "mechanical" THEN @ + 1 ELSE @,
        !.last = kind,
        !.log = Append(@, [kind |-> kind,
                           found_manual |-> habits[1].manual_update,
                           len_before |-> HistoryLen(habits[1])])]

(***************************************************************************)
(* Spec: the collection-level operations                                   *)
(***************************************************************************)
InitCollections ==
    { <<>>,
      <<HabitExecution_new("Test"), HabitExecution_new("Meditation")>>,
      <<HabitExecution_new("Test"), HabitExecution_new("Test")>>,
      <<update_habit(HabitExecution_new("Meditation"), UserValue, TRUE),
        HabitExecution_new("Test")>> }

Init ==
    /\ habits \in InitCollections
    /\ call = NoCall
    /\ prev = habits
    /\ results = <<>>
    /\ archive_log = <<>>
    /\ shown = <<>>
    /\ replayed = 0
    /\ ops = 0
    /\ day = 0
    /\ today = NoDay
    /\ updates = <<>>

Batches == UNION {[1..n -> LookupNames] : n \in 1..MaxBatch}

\* update_execution as the scripted caller uses it
ScriptedUpdateStep ==
    /\ ops = 0
    /\ replayed < MaxScript
    /\ habits # <<>>
    /\ LET r == update_execution(habits, "Test", ScriptValue(replayed + 1), FALSE)
       IN /\ habits' = r.habits
          /\ results' = <<r.result>>
          /\ archive_log' = r.archived
    /\ call' = Call("update_execution", <<"Test">>, ScriptValue(replayed + 1), FALSE)
    /\ prev' = habits
    /\ shown' = <<>>
    /\ replayed' = replayed + 1
    /\ UNCHANGED <<updates, ops, day, today>>

AddNewHabitStep ==
    /\ ops < MaxOps
    /\ Len(habits) < MaxHabits
    /\ \E name \in AddNames :
        /\ habits' = add_new_habit(name, habits)
        /\ call' = Call("add_new_habit", <<name>>, 0, FALSE)
    /\ prev' = habits
    /\ results' = <<>>
    /\ archive_log' = <<>>
    /\ shown' = <<>>
    /\ ops' = ops + 1
    /\ UNCHANGED <<updates, replayed, day, today>>

UpdateExecutionStep ==
    /\ ops < MaxOps
    /\ \E name \in LookupNames, value \in DayValues, manual_update \in BOOLEAN :
        LET r == update_execution(habits, name, value, manual_update)
        IN /\ habits' = r.habits
           /\ results' = <<r.result>>
           /\ archive_log' = r.archived
           /\ call' = Call("update_execution", <<name>>, value, manual_update)
    /\ prev' = habits
    /\ shown' = <<>>
    /\ ops' = ops + 1
    /\ UNCHANGED <<updates, replayed, day, today>>

PerformUserUpdatesStep ==
    /\ ops < MaxOps
    /\ \E habit_names \in Batches :
        LET r == perform_user_updates(habits, habit_names)
        IN /\ habits' = r.habits
           /\ results' = r.results
           /\ archive_log' = r.archived
           /\ call' = Call("perform_user_updates", habit_names, UserValue, TRUE)
    /\ prev' = habits
    /\ shown' = <<>>
    /\ ops' = ops + 1
    /\ UNCHANGED <<updates, replayed, day, today>>

PerformMechanicalUpdateStep ==
    /\ ops < MaxOps
    /\ LET r == perform_mechanical_update(habits)
       IN /\ habits' = r.habits
          /\ results' = r.results
          /\ archive_log' = r.archived
    /\ call' = Call("perform_mechanical_update", <<>>, MechanicalValue, FALSE)
    /\ prev' = habits
    /\ shown' = <<>>
    /\ ops' = ops + 1
    /\ UNCHANGED <<updates, replayed, day, today>>

Next ==
    \/ ScriptedUpdateStep
    \/ AddNewHabitStep
    \/ UpdateExecutionStep
    \/ PerformUserUpdatesStep
    \/ PerformMechanicalUpdateStep

Spec == Init /\ [][Next]_vars

(***************************************************************************)
(* SpecHabit: update_habit and the display of one record                   *)
(***************************************************************************)
InitHabit ==
    /\ habits = <<HabitExecution_new("Test")>>
    /\ call = NoCall
    /\ prev = habits
    /\ results = <<>>
    /\ archive_log = <<>>
    /\ shown = <<>>
    /\ replayed = 0
    /\ ops = 0
    /\ day = 0
    /\ today = NoDay
    /\ updates = <<>>

\* update_habit on the record, with what the step leaves behind
UpdateHabitCall(value, manual_update) ==
    /\ habits' = <<update_habit(habits[1], value, manual_update)>>
    /\ archive_log' = ArchiveCalls(habits[1])
    /\ call' = Call("update_habit", <<habits[1].name>>, value, manual_update)
    /\ prev' = habits
    /\ results' = <<>>
    /\ shown' = <<>>
    /\ updates' = Append(updates, [value |-> value,
                                   manual_update |-> manual_update,
                                   found_manual |-> habits[1].manual_update,
                                   len_before |-> HistoryLen(habits[1])])

ScriptedHabitStep ==
    /\ ops = 0
    /\ replayed < MaxHabitScript
    /\ UpdateHabitCall(ScriptValue(replayed + 1), FALSE)
    /\ replayed' = replayed + 1
    /\ UNCHANGED <<ops, day, today>>

UpdateHabitStep ==
    /\ ops < MaxHabitOps
    /\ \E value \in DayValues, manual_update \in BOOLEAN :
        UpdateHabitCall(value, manual_update)
    /\ ops' = ops + 1
    /\ UNCHANGED <<replayed, day, today>>

DisplayStep ==
    /\ ops < MaxHabitOps
    /\ shown' = map_executions_to_display_chars(habits[1])
    /\ call' = Call("map_executions_to_display_chars", <<habits[1].name>>, 0, FALSE)
    /\ prev' = habits
    /\ results' = <<>>
    /\ archive_log' = <<>>
    /\ ops' = ops + 1
    /\ UNCHANGED <<updates, habits, replayed, day, today>>

NextHabit ==
    \/ ScriptedHabitStep
    \/ UpdateHabitStep
    \/ DisplayStep

SpecHabit == InitHabit /\ [][NextHabit]_vars

(***************************************************************************)
(* SpecArchive: archive_execution on full windows.  A window is given by   *)
(* the set of its indices (0-based) that hold 1 and the value that fills   *)
(* the others; the window of the test archive_habit_execution is added.    *)
(***************************************************************************)
WindowIndices == 0..(MAX_EXECUTIONS - 1)

RECURSIVE IndexSets(_)
IndexSets(k) ==
    IF k = 0 THEN {{}}
    ELSE {s \cup {i} : s \in IndexSets(k - 1), i \in WindowIndices}

WindowOf(ones, filler) ==
    [i \in 1..MAX_EXECUTIONS |-> IF (i - 1) \in ones THEN 1 ELSE filler]

FullWindows ==
    {WindowOf(s, f) : s \in IndexSets(MaxOnes), f \in {-1, 0}}
    \cup {WindowOf(WindowIndices \ s, f) :
                s \in IndexSets(MaxOnes - 1), f \in {-1, 0}}
    \cup {TestWindow}

InitArchive ==
    /\ habits \in {<<[HabitExecution_new("Test") EXCEPT !.executions = w]>> :
                        w \in FullWindows}
    /\ call = NoCall
    /\ prev = habits
    /\ results = <<>>
    /\ archive_log = <<>>
    /\ shown = <<>>
    /\ replayed = 0
    /\ ops = 0
    /\ day = 0
    /\ today = NoDay
    /\ updates = <<>>

\* the update that finds the window full and archives it, as the test
\* archive_habit_execution makes it: update_execution(.., 1, false)
ArchiveStep ==
    /\ ops = 0
    /\ UpdateHabitCall(1, FALSE)
    /\ ops' = 1
    /\ UNCHANGED <<replayed, day, today>>

NextArchive == ArchiveStep

SpecArchive == InitArchive /\ [][NextArchive]_vars

(***************************************************************************)
(* SpecDay: the command line's two updates of one habit, with the day      *)
(* boundaries of the caller (cron runs -m, the user runs -u -n Test).      *)
(* Scripted days, one mechanical run each, come first; the free updates    *)
(* and day boundaries follow in any order.                                 *)
(***************************************************************************)
InitDay ==
    /\ habits = <<HabitExecution_new("Test")>>
    /\ call = NoCall
    /\ prev = habits
    /\ results = <<>>
    /\ archive_log = <<>>
    /\ shown = <<>>
    /\ replayed = 0
    /\ ops = 0
    /\ day = 0
    /\ today = NoDay
    /\ updates = <<>>

\* perform_user_updates for the habit: -u -n Test
ManualUpdateCall ==
    LET r == perform_user_updates(habits, <<"Test">>)
    IN /\ habits' = r.habits
       /\ results' = r.results
       /\ archive_log' = archive_log \o r.archived
       /\ call' = Call("perform_user_updates", <<"Test">>, UserValue, TRUE)
       /\ prev' = habits
       /\ shown' = <<>>
       /\ today' = DayAfter("manual")
       /\ UNCHANGED updates

\* perform_mechanical_update: -m
MechanicalUpdateCall ==
    LET r == perform_mechanical_update(habits)
    IN /\ habits' = r.habits
       /\ results' = r.results
       /\ archive_log' = archive_log \o r.archived
       /\ call' = Call("perform_mechanical_update", <<>>, MechanicalValue, FALSE)
       /\ prev' = habits
       /\ shown' = <<>>
       /\ today' = DayAfter("mechanical")
       /\ UNCHANGED updates

\* midnight: nothing runs, the next update belongs to the next day
DayBoundary ==
    /\ day' = day + 1
    /\ today' = DayStart(habits[1])
    /\ archive_log' = <<>>
    /\ UNCHANGED <<updates, habits, call, prev, results, shown>>

ScriptedMechanicalStep ==
    /\ ops = 0
    /\ replayed < MaxDayScript
    /\ today.last = "none"
    /\ MechanicalUpdateCall
    /\ replayed' = replayed + 1
    /\ UNCHANGED <<ops, day>>

DayManualStep ==
    /\ ops < MaxDayOps
    /\ ManualUpdateCall
    /\ ops' = ops + 1
    /\ UNCHANGED <<replayed, day>>

DayMechanicalStep ==
    /\ ops < MaxDayOps
    /\ MechanicalUpdateCall
    /\ ops' = ops + 1
    /\ UNCHANGED <<replayed, day>>

DayBoundaryStep ==
    /\ today.last # "none"
    /\ DayBoundary
    /\ UNCHANGED <<replayed, ops>>

NextDay ==
    \/ ScriptedMechanicalStep
    \/ DayManualStep
    \/ DayMechanicalStep
    \/ DayBoundaryStep

SpecDay == InitDay /\ [][NextDay]_vars

(***************************************************************************)
(* SpecProtocol: the intended daily protocol: zero or more manual updates, *)
(* then exactly one mechanical run, then the day boundary.                 *)
(***************************************************************************)
ScriptedProtocolStep ==
    /\ today.manual = 0
    /\ ScriptedMechanicalStep

ProtocolManualStep ==
    /\ ops < MaxFreeDays
    /\ today.mechanical = 0
    /\ today.manual < MaxDayManual
    /\ ManualUpdateCall
    /\ UNCHANGED <<replayed, ops, day>>

ProtocolMechanicalStep ==
    /\ ops < MaxFreeDays
    /\ today.mechanical = 0
    /\ MechanicalUpdateCall
    /\ ops' = ops + 1
    /\ UNCHANGED <<replayed, day>>

ProtocolBoundaryStep ==
    /\ today.mechanical = 1
    /\ DayBoundary
    /\ UNCHANGED <<replayed, ops>>

NextProtocol ==
    \/ ScriptedProtocolStep
    \/ ProtocolManualStep
    \/ ProtocolMechanicalStep
    \/ ProtocolBoundaryStep

SpecProtocol == InitDay /\ [][NextProtocol]_vars

(***************************************************************************)
(* Claims about update_habit (SpecHabit)                                   *)
(***************************************************************************)
cur == habits[1]
old == prev[1]
IsUpdateHabit == call.fn = "update_habit"

\* C3 as stated: a mechanical update (is_manual = false) of a record whose
\* manual_update is true leaves the window length unchanged, whatever the
\* window length 0..MAX_EXECUTIONS, and sets manual_update to false.
C3_AsStated ==
    (IsUpdateHabit /\ old.manual_update /\ ~call.manual_update)
        => /\ Len(cur.executions) = Len(old.executions)
           /\ cur.manual_update = FALSE

\* C3 amended: under the same precondition manual_update becomes false; the
\* window is unchanged when it was shorter than MAX_EXECUTIONS, and when it
\* held MAX_EXECUTIONS values it is archived (one token appended) and left
\* empty.
C3_MechanicalAfterManual ==
    (IsUpdateHabit /\ old.manual_update /\ ~call.manual_update)
        => /\ cur.manual_update = FALSE
           /\ Len(old.executions) < MAX_EXECUTIONS
                => /\ cur.executions = old.executions
                   /\ cur.archived_executions = old.archived_executions
           /\ Len(old.executions) = MAX_EXECUTIONS
                => /\ cur.executions = <<>>
                   /\ Len(cur.archived_executions)
                        = Len(old.archived_executions) + 1

C3_Witness ==
    /\ IsUpdateHabit /\ old.manual_update /\ ~call.manual_update
    /\ Len(old.executions) = MAX_EXECUTIONS
    /\ cur.executions = <<>>

\* C4: the rolling window of every record holds between 0 and MAX_EXECUTIONS
\* values in every state between operations.
C4_WindowBounded ==
    \A i \in 1..Len(habits) :
        Len(habits[i].executions) \in 0..MAX_EXECUTIONS

\* an update arrived at a full window and the window is within the limit after
C4_Witness ==
    /\ IsUpdateHabit
    /\ Len(old.executions) = MAX_EXECUTIONS
    /\ ~old.manual_update
    /\ Len(cur.executions) = 1

\* C5: an update of a record whose window holds MAX_EXECUTIONS values appends
\* exactly one token, the encoding of that window, at the end of
\* archived_executions and resets the window, which is then <<value>> when
\* manual_update was false on entry and empty when it was true; an update of
\* a shorter window leaves archived_executions unchanged.
C5_ArchiveOnFullWindow ==
    IsUpdateHabit =>
        IF Len(old.executions) = MAX_EXECUTIONS
        THEN /\ cur.archived_executions
                  = Append(old.archived_executions,
                           base64_url_encode(ArchiveArray(old.executions)))
             /\ cur.executions
                  = IF old.manual_update THEN <<>> ELSE <<call.value>>
             /\ Len(archive_log) = 1
             /\ archive_log[1].old_executions = old.executions
        ELSE /\ cur.archived_executions = old.archived_executions
             /\ archive_log = <<>>

\* a second window is archived behind a stored token
C5_Witness ==
    /\ IsUpdateHabit
    /\ Len(old.executions) = MAX_EXECUTIONS
    /\ Len(old.archived_executions) = 1
    /\ Len(cur.archived_executions) = 2
    /\ cur.archived_executions[1] = old.archived_executions[1]

\* C11: an update of a record whose window is shorter than MAX_EXECUTIONS
\* appends the value as the last element of the window when manual_update
\* was false and leaves the window unchanged when it was true; afterwards
\* manual_update is the is_manual given, and name and archived_executions
\* are unchanged.  Two updates (-1, false) of a new record give <<-1, -1>>.
C11_UpdateShortWindow ==
    (IsUpdateHabit /\ Len(old.executions) < MAX_EXECUTIONS)
        => /\ cur.executions
                = (IF old.manual_update THEN old.executions
                   ELSE old.executions \o <<call.value>>)
           /\ cur.manual_update = call.manual_update
           /\ cur.name = old.name
           /\ cur.archived_executions = old.archived_executions
           /\ (/\ old = [HabitExecution_new("Test") EXCEPT !.executions = <<-1>>]
               /\ call.value = -1
               /\ ~call.manual_update)
                => cur.executions = <<-1, -1>>

\* the second of two updates (-1, false) of a new record
C11_Witness ==
    /\ IsUpdateHabit
    /\ replayed = 0
    /\ ops = 2
    /\ old = [HabitExecution_new("Test") EXCEPT !.executions = <<-1>>]
    /\ call.value = -1
    /\ ~call.manual_update
    /\ cur.executions = <<-1, -1>>

\* the size of the group of values left in the byte in progress when the loop
\* of archive_execution ends on a window of n values
LastGroupSize(n) == n - 8 * Flushes(n)

\* C19: archive_execution is only ever called on a window of exactly
\* MAX_EXECUTIONS values; so the final shift by 7 is 8 minus the size of the
\* last, partial group, the bytes built are 7, and every stored token is the
\* 10 characters of 7 bytes.
C19_ArchiveOnlyFullWindows ==
    /\ \A k \in 1..Len(archive_log) :
        /\ Len(archive_log[k].old_executions) = MAX_EXECUTIONS
        /\ LastShift = 8 - LastGroupSize(Len(archive_log[k].old_executions))
        /\ Len(archive_log[k].archive_array) = 7
    /\ \A i \in 1..Len(habits) :
        \A k \in 1..Len(habits[i].archived_executions) :
            Len(habits[i].archived_executions[k]) = 10

\* the second archival of a record
C19_Witness ==
    /\ IsUpdateHabit
    /\ Len(archive_log) = 1
    /\ Len(archive_log[1].old_executions) = MAX_EXECUTIONS
    /\ Len(cur.archived_executions) = 2
    /\ Len(cur.archived_executions[2]) = 10

(***************************************************************************)
(* Claims about map_executions_to_display_chars (SpecHabit)                *)
(***************************************************************************)
IsDisplay == call.fn = "map_executions_to_display_chars"

\* C10: the display of a record with L <= MAX_EXECUTIONS values has exactly
\* 49 cells: cell i < L is the done marker iff the value at i is 1 and the
\* not-done marker otherwise; the today marker appears at most once, exactly
\* when manual_update is false and L < 49, at cell L; every other cell >= L
\* is the unfilled marker.
C10_Display ==
    IsDisplay =>
        LET L == Len(cur.executions)
            cell(i) == shown[i + 1]
            todays == {i \in 0..(Len(shown) - 1) : cell(i) = "T"}
        IN /\ Len(shown) = 49
           /\ \A i \in 0..48 :
                i < L => cell(i) = (IF cur.executions[i + 1] = 1 THEN "X" ELSE "O")
           /\ Cardinality(todays) <= 1
           /\ (todays # {}) <=> (cur.manual_update = FALSE /\ L < 49)
           /\ todays # {} => todays = {L}
           /\ \A i \in 0..48 : (i >= L /\ i \notin todays) => cell(i) = "."

C10_Witness ==
    /\ IsDisplay
    /\ Len(cur.executions) \in 1..48
    /\ ~cur.manual_update
    /\ shown[Len(cur.executions) + 1] = "T"
    /\ \E i \in 1..Len(cur.executions) : shown[i] = "X"
    /\ \E i \in 1..Len(cur.executions) : shown[i] = "O"

(***************************************************************************)
(* Claims about update_execution and the batch operations (Spec)           *)
(***************************************************************************)
IsUpdateExecution == call.fn = "update_execution"
IsUserUpdates == call.fn = "perform_user_updates"

NamesIn(hs) == {hs[i].name : i \in 1..Len(hs)}

\* C7: update_execution with a name that no record of the collection has
\* returns a not-found failure and leaves the collection as it was: every
\* field of every record, their number and their order.
C7_NotFoundLeavesCollection ==
    (IsUpdateExecution /\ call.names[1] \notin NamesIn(prev))
        => /\ Len(results) = 1
           /\ results[1].tag = "Err"
           /\ habits = prev

C7_Witness ==
    /\ IsUpdateExecution
    /\ call.names[1] \notin NamesIn(prev)
    /\ Len(prev) = 2
    /\ Len(prev[1].executions) > 0
    /\ results[1].tag = "Err"

\* C8: the not-found failure carries the offending name: the failures
\* returned for two different missing names differ.
C8_ErrorCarriesName ==
    IsUserUpdates =>
        \A j, k \in 1..Len(results) :
            (/\ results[j].tag = "Err"
             /\ results[k].tag = "Err"
             /\ call.names[j] # call.names[k])
                => results[j].val # results[k].val

\* the record at i after n updates (1, is_manual = true)
RECURSIVE UserUpdated(_, _)
UserUpdated(habit, n) ==
    IF n = 0 THEN habit
    ELSE UserUpdated(update_habit(habit, UserValue, TRUE), n - 1)

\* how many names of the batch select record i of the collection
Selecting(hs, names, i) ==
    Cardinality({k \in 1..Len(names) :
        /\ hs[i].name = names[k]
        /\ \A j \in 1..(i - 1) : hs[j].name # names[k]})

\* C9: a batch user update processes every name, in order; a name that is
\* not found does not stop it: every name that matches a record has the
\* update (1, is_manual = true) applied to that record, wherever the missing
\* names stand in the list, and the collection that results is the one
\* written back.
C9_BatchContinuesPastNotFound ==
    IsUserUpdates =>
        /\ Len(results) = Len(call.names)
        /\ \A k \in 1..Len(call.names) :
            IF call.names[k] \in NamesIn(prev)
            THEN results[k] = Ok(call.names[k])
            ELSE results[k].tag = "Err"
        /\ Len(habits) = Len(prev)
        /\ \A i \in 1..Len(prev) :
            habits[i] = UserUpdated(prev[i], Selecting(prev, call.names, i))

\* a missing name first, a matching name after it, and the record updated
C9_Witness ==
    /\ IsUserUpdates
    /\ Len(call.names) = 2
    /\ call.names[1] \notin NamesIn(prev)
    /\ call.names[2] \in NamesIn(prev)
    /\ habits # prev
    /\ results[1].tag = "Err"
    /\ results[2].tag = "Ok"

(***************************************************************************)
(* Claims about archive_execution (SpecArchive)                            *)
(***************************************************************************)
\* bit b (0 = least significant) of a byte
BitOf(byte, b) == (byte \div (2 ^ b)) % 2

\* bit p (0-based, most significant bit of the first byte first) of the bytes,
\* 0 past their end
StreamBit(bytes, p) ==
    IF p \div 8 < Len(bytes) THEN BitOf(bytes[(p \div 8) + 1], 7 - (p % 8)) ELSE 0

\* the k-th (0-based) group of six bits of the bytes
StreamSextet(bytes, k) ==
    32 * StreamBit(bytes, 6 * k) + 16 * StreamBit(bytes, 6 * k + 1)
    + 8 * StreamBit(bytes, 6 * k + 2) + 4 * StreamBit(bytes, 6 * k + 3)
    + 2 * StreamBit(bytes, 6 * k + 4) + StreamBit(bytes, 6 * k + 5)

SextetChar(bytes, k) == Base64UrlAlphabet[StreamSextet(bytes, k) + 1]

\* seven bytes are 56 bits: ten characters, the last from two bits and zeros
TokenOfSevenBytes(bytes) ==
    SextetChar(bytes, 0) \o SextetChar(bytes, 1) \o SextetChar(bytes, 2)
    \o SextetChar(bytes, 3) \o SextetChar(bytes, 4) \o SextetChar(bytes, 5)
    \o SextetChar(bytes, 6) \o SextetChar(bytes, 7) \o SextetChar(bytes, 8)
    \o SextetChar(bytes, 9)

AllOnes == [i \in 1..MAX_EXECUTIONS |-> 1]

AddedToday == HistoryLen(habits[1]) - today.start_len

\* C1 as stated: within one day, whatever the number n >= 1 of mechanical
\* runs and the manual updates between them, at most one result is added to
\* the record's history.
C1_AsStated ==
    today.mechanical >= 1 => AddedToday <= 1

\* C1 amended: the results added within one day are the day's updates that
\* found manual_update false: the day's first update when the day began with
\* manual_update false, and every update that directly follows a mechanical
\* run of the same day.  So at most one result is added as long as no update
\* directly follows a mechanical run within the day.
C1_AddedPerDay ==
    /\ AddedToday
         = today.after_mechanical
           + (IF today.last # "none" /\ ~today.start_manual THEN 1 ELSE 0)
    /\ today.after_mechanical = 0 => AddedToday <= 1

\* manual updates, then one mechanical run: one result
C1_Witness ==
    /\ today.manual >= 2
    /\ today.mechanical = 1
    /\ today.last = "mechanical"
    /\ today.after_mechanical = 0
    /\ AddedToday = 1
    /\ Len(habits[1].archived_executions) >= 1

\* the value of the newest entry of the history: the last value of the
\* window, or of the window archived today when the window is empty
LastEntry ==
    IF habits[1].executions # <<>>
    THEN habits[1].executions[Len(habits[1].executions)]
    ELSE IF archive_log # <<>>
    THEN LET w == archive_log[Len(archive_log)].old_executions IN w[Len(w)]
    ELSE 0

\* C2: under the daily protocol, from a new record, every day adds exactly
\* one entry to the history, 1 if the day had a manual update and -1
\* otherwise, and manual_update is false when the day ends; also across the
\* archival of day 49, 98, ...
C2_OneEntryPerDay ==
    today.mechanical = 1 =>
        /\ AddedToday = 1
        /\ HistoryLen(habits[1]) = day + 1
        /\ LastEntry = (IF today.manual > 0 THEN 1 ELSE -1)
        /\ habits[1].manual_update = FALSE

\* day 98 ends after two manual updates: its entry is the 49th of the second
\* window, which the day archives
C2_Witness ==
    /\ today.mechanical = 1
    /\ today.manual = 2
    /\ day + 1 = 2 * MAX_EXECUTIONS
    /\ habits[1].executions = <<>>
    /\ Len(habits[1].archived_executions) = 2
    /\ LastEntry = 1


\* C13: update_execution with a name some record has applies the update to
\* the first record, in collection order, whose name equals it, and returns
\* success carrying the name; every other record, a later record of the same
\* name included, keeps all its fields, and the number and order of the
\* records do not change.
C13_FirstMatchOnly ==
    (IsUpdateExecution /\ call.names[1] \in NamesIn(prev))
        => /\ results = <<Ok(call.names[1])>>
           /\ Len(habits) = Len(prev)
           /\ \E i \in 1..Len(prev) :
                /\ prev[i].name = call.names[1]
                /\ \A j \in 1..(i - 1) : prev[j].name # call.names[1]
                /\ habits[i] = update_habit(prev[i], call.value, call.manual_update)
                /\ \A j \in 1..Len(prev) : j # i => habits[j] = prev[j]

\* two records of the name: the first is updated, the second is not
C13_Witness ==
    /\ IsUpdateExecution
    /\ Len(prev) = 2
    /\ prev[1].name = call.names[1]
    /\ prev[2].name = call.names[1]
    /\ habits[1] # prev[1]
    /\ habits[2] = prev[2]
    /\ results = <<Ok(call.names[1])>>

IsAddNewHabit == call.fn = "add_new_habit"

\* C16: add_new_habit appends exactly one record at the end of the
\* collection: the given name, an empty window, manual_update false, an empty
\* archive list; the records that were there are unchanged, and a name the
\* collection already has is added again, giving two records of that name.
C16_AddAppendsNewRecord ==
    IsAddNewHabit =>
        /\ Len(habits) = Len(prev) + 1
        /\ \A i \in 1..Len(prev) : habits[i] = prev[i]
        /\ habits[Len(habits)] = [name |-> call.names[1],
                                  executions |-> <<>>,
                                  manual_update |-> FALSE,
                                  archived_executions |-> <<>>]

\* a name the collection already has, added again
C16_Witness ==
    /\ IsAddNewHabit
    /\ \E i \in 1..Len(prev) :
        /\ prev[i].name = call.names[1]
        /\ Len(prev[i].executions) > 0
    /\ Cardinality({i \in 1..Len(habits) : habits[i].name = call.names[1]}) = 2

IsMechanicalUpdate == call.fn = "perform_mechanical_update"

DistinctNames(hs) ==
    \A i, j \in 1..Len(hs) : hs[i].name = hs[j].name => i = j

\* C17: on a collection whose names are pairwise distinct, one
\* perform_mechanical_update applies the update (-1, is_manual = false)
\* exactly once to every record: afterwards every record has manual_update
\* false and no record's history has grown by more than one entry.
C17_MechanicalPassOncePerRecord ==
    (IsMechanicalUpdate /\ DistinctNames(prev))
        => /\ Len(habits) = Len(prev)
           /\ Len(results) = Len(prev)
           /\ \A i \in 1..Len(prev) :
                /\ results[i] = Ok(prev[i].name)
                /\ habits[i] = update_habit(prev[i], MechanicalValue, FALSE)
                /\ ~habits[i].manual_update
                /\ HistoryLen(habits[i]) - HistoryLen(prev[i]) \in {0, 1}

\* two records of different names: one marked by the user, whose window
\* stays as it is, and one with a full window, which gains one entry
C17_Witness ==
    /\ IsMechanicalUpdate
    /\ Len(prev) = 2
    /\ DistinctNames(prev)
    /\ prev[1].manual_update
    /\ habits[1].executions = prev[1].executions
    /\ ~habits[1].manual_update
    /\ Len(prev[2].executions) = MAX_EXECUTIONS
    /\ HistoryLen(habits[2]) = HistoryLen(prev[2]) + 1

\* the entry at position p (from 1) of the record's history, for a position
\* in the window or in a window archived during the day
EntryAt(p) ==
    LET j == ((p - 1) \div MAX_EXECUTIONS) + 1
        k == ((p - 1) % MAX_EXECUTIONS) + 1
        kept == Len(cur.archived_executions) - Len(archive_log)
    IN IF j > Len(cur.archived_executions)
       THEN cur.executions[k]
       ELSE archive_log[j - kept].old_executions[k]

\* C12: a mechanical update that finds manual_update false, followed in the
\* same day by a manual update: both values are recorded, the history gains
\* two entries for the day, -1 and then 1, and manual_update ends true.
C12_MechanicalThenManual ==
    LET n == Len(today.log)
    IN (/\ n >= 2
        /\ today.log[n].kind = "manual"
        /\ today.log[n - 1].kind = "mechanical"
        /\ ~today.log[n - 1].found_manual)
            => /\ HistoryLen(cur) = today.log[n - 1].len_before + 2
               /\ EntryAt(HistoryLen(cur) - 1) = MechanicalValue
               /\ EntryAt(HistoryLen(cur)) = UserValue
               /\ cur.manual_update

\* the mechanical update fills the window, the manual update archives it
C12_Witness ==
    /\ Len(today.log) = 2
    /\ today.log[1].kind = "mechanical"
    /\ ~today.log[1].found_manual
    /\ today.log[2].kind = "manual"
    /\ Len(archive_log) = 1
    /\ cur.executions = <<UserValue>>
    /\ cur.manual_update

\* the calls of update_habit that found manual_update false, in order
Accepted == SelectSeq(updates, LAMBDA u : ~u.found_manual)

\* 1 when the value at position p (from 0) of the j-th (from 1) group of
\* MAX_EXECUTIONS values of acc is 1, 0 when it is not or p is past the group
AcceptedOne(acc, j, p) ==
    IF p < MAX_EXECUTIONS /\ acc[MAX_EXECUTIONS * (j - 1) + p + 1].value = 1
    THEN 1 ELSE 0

\* the bitmap of the j-th group: the value at p is bit (7 - p mod 8) of byte
\* (p div 8)
AcceptedBitmap(acc, j) ==
    [b \in 1..7 |->
          128 * AcceptedOne(acc, j, 8 * (b - 1)) + 64 * AcceptedOne(acc, j, 8 * (b - 1) + 1)
        + 32 * AcceptedOne(acc, j, 8 * (b - 1) + 2) + 16 * AcceptedOne(acc, j, 8 * (b - 1) + 3)
        + 8 * AcceptedOne(acc, j, 8 * (b - 1) + 4) + 4 * AcceptedOne(acc, j, 8 * (b - 1) + 5)
        + 2 * AcceptedOne(acc, j, 8 * (b - 1) + 6) + AcceptedOne(acc, j, 8 * (b - 1) + 7)]

\* C18: for a record created empty, after any sequence of updates, 49 times
\* the number of tokens plus the length of the window is the number of
\* update_habit calls that found manual_update false; no accepted entry is
\* lost or duplicated by archival: the i-th accepted value is 1 iff the bit
\* for it in the archive bitmap, or the window element for it, is 1.
C18_HistoryConserved ==
    LET archived == Len(cur.archived_executions)
        acc == Accepted
    IN /\ HistoryLen(cur) = Len(acc)
       /\ \A j \in 1..archived :
            LET bitmap == AcceptedBitmap(acc, j)
            IN cur.archived_executions[j] = TokenOfSevenBytes(bitmap)
       /\ \A k \in 1..Len(cur.executions) :
            (cur.executions[k] = 1)
                <=> (acc[MAX_EXECUTIONS * archived + k].value = 1)

\* an update that is dropped archives the second full window
C18_Witness ==
    /\ IsUpdateHabit
    /\ old.manual_update
    /\ Len(archive_log) = 1
    /\ Len(cur.archived_executions) = 2
    /\ cur.executions = <<>>
    /\ Len(updates) = Len(Accepted) + 1

\* the first call of the run of manual updates that ends the calls made
RunStart ==
    CHOOSE s \in 1..Len(updates) :
        /\ \A i \in s..Len(updates) : updates[i].manual_update
        /\ s > 1 => ~updates[s - 1].manual_update

\* C15: after k >= 1 consecutive manual updates of a record that had
\* manual_update false, with no mechanical update between them, exactly one
\* entry, the first value, has been added to the history (window plus
\* archived windows); the k - 1 later values are dropped and manual_update
\* is true.  So a batch that names a habit twice records one entry.
C15_ManualRunAddsOne ==
    (/\ updates # <<>>
     /\ updates[Len(updates)].manual_update
     /\ ~updates[RunStart].found_manual)
        => LET first == updates[RunStart]
               acc == Accepted
               archived == Len(cur.archived_executions)
               bitmap == AcceptedBitmap(acc, archived)
           IN /\ HistoryLen(cur) = first.len_before + 1
              /\ \A i \in (RunStart + 1)..Len(updates) : updates[i].found_manual
              /\ acc[Len(acc)] = first
              /\ IF cur.executions # <<>>
                 THEN cur.executions[Len(cur.executions)] = first.value
                 ELSE cur.archived_executions[archived] = TokenOfSevenBytes(bitmap)
              /\ cur.manual_update

\* three manual updates in a row, 1 then 0 then -1: the 1 is the entry
C15_Witness ==
    /\ Len(updates) >= 3
    /\ updates[Len(updates)].manual_update
    /\ RunStart = Len(updates) - 2
    /\ ~updates[RunStart].found_manual
    /\ updates[RunStart].value = 1
    /\ updates[RunStart + 1].value = 0
    /\ updates[RunStart + 2].value = -1
    /\ cur.executions[Len(cur.executions)] = 1
    /\ HistoryLen(cur) = updates[RunStart].len_before + 1

\* the positions (from 0) of a window that hold 1
OnesOf(w) == {i \in 0..(Len(w) - 1) : w[i + 1] = 1}

\* the positions whose bit is 1 in the bytes
OnesOfBytes(bytes) == {i \in WindowIndices : StreamBit(bytes, i) = 1}

\* the window with the same positions at 1 and -1 and 0 exchanged elsewhere
OtherFiller(w) ==
    [i \in 1..Len(w) |-> IF w[i] = 1 THEN 1 ELSE IF w[i] = 0 THEN -1 ELSE 0]

\* the token archive_execution stores for a window
TokenOf(w) ==
    archive_execution([HabitExecution_new("Test") EXCEPT !.executions = w])
        .archived_executions[1]

TestBytes == ArchiveArray(TestWindow)

\* C14: the token of a full window depends only on the positions that hold
\* 1: the window with -1 and 0 exchanged gives the same token; the positions
\* at 1 can be read back from the bytes, so windows that differ in them give
\* different bytes (as against the bytes of the test's window); and the same
\* window archived again, on the record as it is afterwards, gives the same
\* token.
C14_TokenFromOnes ==
    (IsUpdateHabit /\ Len(old.executions) = MAX_EXECUTIONS) =>
        LET w == old.executions
            bytes == archive_log[1].archive_array
            token == cur.archived_executions[Len(cur.archived_executions)]
            again == archive_execution([cur EXCEPT !.executions = w])
        IN /\ TokenOf(OtherFiller(w)) = token
           /\ OnesOfBytes(bytes) = OnesOf(w)
           /\ OnesOf(w) # OnesOf(TestWindow) => bytes # TestBytes
           /\ again.archived_executions = Append(cur.archived_executions, token)

\* a window filled with -1 around two ones, first and last position: its
\* token is that of the window filled with 0
C14_Witness ==
    /\ IsUpdateHabit
    /\ old.executions = WindowOf({0, MAX_EXECUTIONS - 1}, -1)
    /\ cur.archived_executions = <<TokenOf(WindowOf({0, MAX_EXECUTIONS - 1}, 0))>>
    /\ archive_log[1].archive_array # TestBytes

=========================================================================
